---- MODULE Spec2Model ----
(***************************************************************************)
(* Model of the typed object handle Obj<T> (gdext-class/src/obj.rs) and of *)
(* the export code generator (godot-macros/.../property.rs).               *)
(*                                                                         *)
(* SpecObj    : the host object heap, the handles the extension holds and  *)
(*              every public operation of Obj<T>.                          *)
(* SpecExport : one expansion of the derive macro over a class declaration *)
(*              followed by a run of the generated __register_exports().   *)
(***************************************************************************)
EXTENDS Integers, Sequences, FiniteSets, Bags, TLC

VARIABLES
    heap,       \* host objects; the pointer of an object is its index
    handles,    \* Obj<T> values currently in scope on the extension side
    status,     \* "running" | "panic" (Rust panic) | "abort" (the process
                \* died in the host) | "undefined" (it went on after
                \* undefined behaviour; nothing more is modelled)
    last,       \* the last operation: its arguments, host calls and result
    decl,       \* the class declaration: per field, its #[export] keys if any
    parsed,     \* per field: its name and the FieldExport parsed, if any
    build,      \* "declared" | "parsed" | "generated" | "compile_error"
    impls,      \* getter_setter_impls emitted by make_exports_impl
    tokens,     \* export_tokens emitted by make_exports_impl
    pc,         \* number of export tokens __register_exports() has run
    registry    \* host calls made by the current run of __register_exports

objVars == <<heap, handles, status, last>>
expVars == <<decl, parsed, build, impls, tokens, pc, registry>>
vars == <<heap, handles, status, last,
          decl, parsed, build, impls, tokens, pc, registry>>

----------------------------------------------------------------------------
(* Bounds *)

MaxObjs == 2
MaxHandles == 2
MaxFields == 2

(* Option<T> *)
None == <<>>
Some(x) == <<x>>

(* The null object pointer. *)
NULL == 0

(* Two user classes, their states, and T::default() of each. *)
Classes == {"A", "B"}
UserStates == {0, 1}
DefaultOf(T) == IF T = "A" THEN 0 ELSE 1

----------------------------------------------------------------------------
(* The host, as obj.rs calls it through interface_fn!.                     *)

(* The instance id the host gives the object at ptr.  Id 1 is never used. *)
HostId(ptr) == ptr + 1

Ids == 1 .. (MaxObjs + 1)

(* classdb_construct_object: a new object of class T with an empty        *)
(* instance storage bound to it.  inits counts the initializations of the  *)
(* storage, live is cleared by object_destroy.                             *)
classdb_construct_object(hp, T) ==
    Append(hp, [class |-> T, id |-> HostId(Len(hp) + 1),
                user_instance |-> None, inits |-> 0, live |-> TRUE])

(* object_get_instance_from_id: the live object with that id, or null. *)
object_get_instance_from_id(hp, id) ==
    IF \E p \in DOMAIN hp : hp[p].id = id /\ hp[p].live
    THEN CHOOSE p \in DOMAIN hp : hp[p].id = id /\ hp[p].live
    ELSE NULL

(* object_get_instance_id *)
object_get_instance_id(hp, ptr) == hp[ptr].id

(* object_get_instance_binding: the binding slot of the object. *)
object_get_instance_binding(hp, ptr) == ptr

(* object_destroy *)
object_destroy(hp, ptr) == [hp EXCEPT ![ptr].live = FALSE]

(* InstanceStorage::initialize: store the user object in the slot. *)
initialize(hp, slot, user_object) ==
    [hp EXCEPT ![slot].user_instance = Some(user_object),
               ![slot].inits = @ + 1]

(* InstanceStorage::initialize_default *)
initialize_default(hp, slot, T) == initialize(hp, slot, DefaultOf(T))

(* A host call, as recorded in the trace of an operation. *)
Call(fn, obj) == [fn |-> fn, obj |-> obj]

----------------------------------------------------------------------------
(* Obj<T>                                                                  *)

from_opaque(opaque, T) == [opaque |-> opaque, T |-> T]

(* from_obj_sys / obj_sys: the pointer bits are the opaque bytes. *)
from_obj_sys(ptr, T) == from_opaque(ptr, T)

obj_sys(h) == h.opaque

(* Obj::storage: ask the host for the binding of the handle's object. *)
storage(hp, h) == object_get_instance_binding(hp, obj_sys(h))

(* The result of an operation: the heap after it, what it returns, the    *)
(* host calls it made, and how it ended: "ok", "panic", "abort" or        *)
(* "undefined".                                                            *)
Result(hp, ret, trace, outcome) ==
    [heap |-> hp, ret |-> ret, trace |-> trace, outcome |-> outcome]

(* What new() and new_default() do with a null object: there is no null   *)
(* check, so storage() hands the null object to the host, which           *)
(* dereferences it.  ub is what that does: "abort" (the process dies) or   *)
(* "undefined" (the call returns a stray binding, the caller initializes   *)
(* it and returns the handle of the null object).                          *)
OnNull(hp, T, ub) ==
    Result(hp, IF ub = "abort" THEN None ELSE Some(from_obj_sys(NULL, T)),
           <<Call("classdb_construct_object", NULL),
             Call("object_get_instance_binding", NULL)>>
           \o (IF ub = "abort" THEN <<>> ELSE <<Call("initialize", NULL)>>),
           ub)

ConstructTrace(ptr) ==
    <<Call("classdb_construct_object", ptr),
      Call("object_get_instance_binding", ptr),
      Call("initialize", ptr)>>

(* new() that installs the default state instead of the caller's. *)
new_installs_default(hp, T, user_object, ok, ub) ==
    LET hp1 == IF ok THEN classdb_construct_object(hp, T) ELSE hp
        ptr == IF ok THEN Len(hp1) ELSE NULL
        result == from_obj_sys(ptr, T)
    IN  IF ptr = NULL
        THEN OnNull(hp1, T, ub)
        ELSE Result(initialize_default(hp1, storage(hp1, result), T),
                    Some(result), ConstructTrace(ptr), "ok")

(* Obj::new.  ok: the host returned an object (not null). *)
new(hp, T, user_object, ok, ub) ==
    LET hp1 == IF ok THEN classdb_construct_object(hp, T) ELSE hp
        ptr == IF ok THEN Len(hp1) ELSE NULL
        result == from_obj_sys(ptr, T)
    IN  IF ptr = NULL
        THEN OnNull(hp1, T, ub)
        ELSE Result(initialize(hp1, storage(hp1, result), user_object),
                    Some(result), ConstructTrace(ptr), "ok")

(* new_default() that returns the handle without initializing it. *)
new_default_no_init(hp, T, ok, ub) ==
    LET hp1 == IF ok THEN classdb_construct_object(hp, T) ELSE hp
        ptr == IF ok THEN Len(hp1) ELSE NULL
        result == from_obj_sys(ptr, T)
    IN  IF ptr = NULL
        THEN OnNull(hp1, T, ub)
        ELSE Result(hp1, Some(result),
                    <<Call("classdb_construct_object", ptr)>>, "ok")

(* Obj::new_default *)
new_default(hp, T, ok, ub) ==
    LET hp1 == IF ok THEN classdb_construct_object(hp, T) ELSE hp
        ptr == IF ok THEN Len(hp1) ELSE NULL
        result == from_obj_sys(ptr, T)
    IN  IF ptr = NULL
        THEN OnNull(hp1, T, ub)
        ELSE Result(initialize_default(hp1, storage(hp1, result), T),
                    Some(result), ConstructTrace(ptr), "ok")

(* try_from_instance_id() without the null check. *)
try_from_instance_id_unchecked(hp, T, instance_id) ==
    LET ptr == object_get_instance_from_id(hp, instance_id)
    IN  Result(hp, Some(from_obj_sys(ptr, T)),
               <<Call("object_get_instance_from_id", ptr)>>, "ok")

(* try_from_instance_id() that initializes the storage of what it finds. *)
try_from_instance_id_reinit(hp, T, instance_id) ==
    LET ptr == object_get_instance_from_id(hp, instance_id)
    IN  IF ptr = NULL
        THEN Result(hp, None, <<Call("object_get_instance_from_id", ptr)>>, "ok")
        ELSE Result(initialize_default(hp, ptr, T), Some(from_obj_sys(ptr, T)),
                    <<Call("object_get_instance_from_id", ptr)>>, "ok")

(* Obj::try_from_instance_id *)
try_from_instance_id(hp, T, instance_id) ==
    LET ptr == object_get_instance_from_id(hp, instance_id)
    IN  Result(hp,
               IF ptr = NULL THEN None ELSE Some(from_obj_sys(ptr, T)),
               <<Call("object_get_instance_from_id", ptr)>>, "ok")

(* Obj::from_instance_id: expect() panics on None. *)
from_instance_id(hp, T, instance_id) ==
    LET r == try_from_instance_id(hp, T, instance_id)
    IN  IF r.ret = None THEN [r EXCEPT !.outcome = "panic"] ELSE r

(* instance_id() that returns the pointer bits. *)
instance_id_is_pointer(hp, h) == obj_sys(h)

(* Obj::instance_id, for a handle of a host object. *)
instance_id(hp, h) == object_get_instance_id(hp, obj_sys(h))

(* Obj::inner, for a handle of a host object of class T: the user object  *)
(* in the storage (None when the storage was never initialized).           *)
inner(hp, h) == hp[storage(hp, h)].user_instance

(* Obj::inner_mut followed by a write through the returned reference. *)
inner_mut(hp, h, v) == [hp EXCEPT ![storage(hp, h)].user_instance = Some(v)]

(* The disabled destructor, enabled. *)
drop_destroys(hp, h) ==
    IF obj_sys(h) \in DOMAIN hp THEN object_destroy(hp, obj_sys(h)) ELSE hp

(* A handle going out of scope: Obj has no Drop, the heap is untouched. *)
drop(hp, h) == hp

(* A handle whose use is defined: it points at a host object of its class. *)
WellTyped(hp, h) ==
    /\ obj_sys(h) \in DOMAIN hp
    /\ hp[obj_sys(h)].class = h.T

----------------------------------------------------------------------------
(* Actions of SpecObj *)

InScope == BagToSet(handles)

Last(op, arg, r) ==
    [op |-> op, arg |-> arg, ret |-> r.ret, trace |-> r.trace,
     outcome |-> r.outcome]

(* An operation that may return a handle to the caller. *)
Finish(op, arg, r) ==
    /\ heap' = r.heap
    /\ status' = IF r.outcome = "ok" THEN "running" ELSE r.outcome
    /\ handles' = IF r.outcome = "ok" /\ r.ret # None
                  THEN handles (+) SetToBag({r.ret[1]}) ELSE handles
    /\ last' = Last(op, arg, r)

(* An operation on a handle in scope that returns a value. *)
Query(op, h, r) ==
    /\ heap' = r.heap
    /\ status' = IF r.outcome = "ok" THEN "running" ELSE r.outcome
    /\ handles' = handles
    /\ last' = Last(op, Some(h), r)

Room == BagCardinality(handles) < MaxHandles

New ==
    /\ status = "running"
    /\ Room
    /\ \E T \in Classes, s \in UserStates, ok \in BOOLEAN, ub \in {"abort", "undefined"} :
         /\ (ok => ub = "abort" /\ Len(heap) < MaxObjs)
         /\ Finish("new", Some(s), new(heap, T, s, ok, ub))
    /\ UNCHANGED expVars

NewDefault ==
    /\ status = "running"
    /\ Room
    /\ \E T \in Classes, ok \in BOOLEAN, ub \in {"abort", "undefined"} :
         /\ (ok => ub = "abort" /\ Len(heap) < MaxObjs)
         /\ Finish("new_default", Some(T), new_default(heap, T, ok, ub))
    /\ UNCHANGED expVars

TryFromInstanceId ==
    /\ status = "running"
    /\ \E T \in Classes, id \in Ids :
         LET r == try_from_instance_id(heap, T, id)
         IN  /\ (r.ret # None => Room)
             /\ Finish("try_from_instance_id", Some(id), r)
    /\ UNCHANGED expVars

FromInstanceId ==
    /\ status = "running"
    /\ \E T \in Classes, id \in Ids :
         LET r == from_instance_id(heap, T, id)
         IN  /\ (r.outcome = "ok" => Room)
             /\ Finish("from_instance_id", Some(id), r)
    /\ UNCHANGED expVars

(* instance_id(): defined on a handle of a host object; on the null       *)
(* handle the host dereferences null.                                      *)
InstanceId ==
    /\ status = "running"
    /\ \E h \in InScope :
         LET t == <<Call("object_get_instance_id", obj_sys(h))>>
         IN  IF obj_sys(h) \in DOMAIN heap
             THEN Query("instance_id", h,
                        Result(heap, Some(instance_id(heap, h)), t, "ok"))
             ELSE \E ub \in {None} \cup {Some(id) : id \in Ids} :
                    Query("instance_id", h,
                          Result(heap, ub, t, IF ub = None THEN "abort" ELSE "undefined"))
    /\ UNCHANGED expVars

(* inner(): defined on a well-typed handle; otherwise the storage is      *)
(* reinterpreted (type confusion) or the null object is dereferenced.      *)
Inner ==
    /\ status = "running"
    /\ \E h \in InScope :
         LET t == <<Call("object_get_instance_binding", obj_sys(h))>>
         IN  IF WellTyped(heap, h)
             THEN Query("inner", h,
                        Result(heap, inner(heap, h), t,
                               IF inner(heap, h) = None THEN "panic" ELSE "ok"))
             ELSE \E ub \in {None} \cup {Some(v) : v \in UserStates} :
                    Query("inner", h,
                          Result(heap, ub, t, IF ub = None THEN "abort" ELSE "undefined"))
    /\ UNCHANGED expVars

InnerMut ==
    /\ status = "running"
    /\ \E h \in InScope, v \in UserStates :
         LET t == <<Call("object_get_instance_binding", obj_sys(h))>>
         IN  IF WellTyped(heap, h)
             THEN Query("inner_mut", h,
                        Result(inner_mut(heap, h, v), Some(v), t, "ok"))
             ELSE \* a write through a mistyped or null storage pointer
                  \E ub \in {"abort", "undefined"} :
                    Query("inner_mut", h,
                          Result(IF ub = "undefined" /\ obj_sys(h) \in DOMAIN heap
                                 THEN inner_mut(heap, h, v) ELSE heap,
                                 Some(v), t, ub))
    /\ UNCHANGED expVars

DropHandle ==
    /\ status = "running"
    /\ \E h \in InScope :
         /\ heap' = drop(heap, h)
         /\ handles' = handles (-) SetToBag({h})
         /\ last' = Last("drop", Some(h), Result(heap, None, <<>>, "ok"))
    /\ UNCHANGED <<status, expVars>>

(* From<Obj<T>> for Variant: consumes the handle; the variant holds the   *)
(* object pointer.                                                         *)
VariantFromObj ==
    /\ status = "running"
    /\ \E h \in InScope :
         /\ heap' = drop(heap, h)
         /\ handles' = handles (-) SetToBag({h})
         /\ last' = Last("variant_from_obj", Some(h),
                         Result(heap, Some(obj_sys(h)),
                                <<Call("object_to_variant", obj_sys(h))>>, "ok"))
    /\ UNCHANGED <<status, expVars>>

(* From<&Variant> for Obj<T>: the host writes the object pointer the      *)
(* variant holds (a host object, or null) into the new handle.             *)
ObjFromVariant ==
    /\ status = "running"
    /\ Room
    /\ \E T \in Classes, ptr \in {NULL} \cup DOMAIN heap :
         Finish("obj_from_variant", Some(ptr),
                Result(heap, Some(from_obj_sys(ptr, T)),
                       <<Call("object_from_variant", ptr)>>, "ok"))
    /\ UNCHANGED expVars

(* From<&Obj<T>> for Variant: todo!() *)
VariantFromObjRef ==
    /\ status = "running"
    /\ \E h \in InScope :
         Query("variant_from_obj_ref", h, Result(heap, None, <<>>, "panic"))
    /\ UNCHANGED expVars

NoLast == [op |-> "none", arg |-> None, ret |-> None, trace |-> <<>>,
           outcome |-> "ok"]

ObjInit ==
    /\ heap = <<>>
    /\ handles = EmptyBag
    /\ status = "running"
    /\ last = NoLast

ExpIdle ==
    /\ decl = <<>>
    /\ parsed = <<>>
    /\ build = "declared"
    /\ impls = <<>>
    /\ tokens = <<>>
    /\ pc = 0
    /\ registry = <<>>

InitObj == ObjInit /\ ExpIdle

NextObj ==
    \/ New
    \/ NewDefault
    \/ TryFromInstanceId
    \/ FromInstanceId
    \/ InstanceId
    \/ Inner
    \/ InnerMut
    \/ DropHandle
    \/ VariantFromObj
    \/ ObjFromVariant
    \/ VariantFromObjRef

SpecObj == InitObj /\ [][NextObj]_vars

----------------------------------------------------------------------------
(* Properties of SpecObj *)

(* The handle of the object at ptr, typed with the object's class. *)
HandleOf(hp, ptr) == from_obj_sys(ptr, hp[ptr].class)

Constructing(op) == op \in {"new", "new_default"}

(* The last operation returned normally with a value. *)
Returned(l) == l.outcome = "ok" /\ l.ret # None

HostReturnedNull(l) == l.trace # <<>> /\ l.trace[1].obj = NULL

CallsOf(l, fn) == {i \in DOMAIN l.trace : l.trace[i].fn = fn}

(* C1: the handle new(s) returns resolves through inner() to s, and a     *)
(* later new()/new_default() that constructs another object leaves what    *)
(* inner() returns for every existing object as it was.                    *)
C1_NewThenInner ==
    [][ /\ (last'.op = "new" /\ Returned(last')
              => /\ WellTyped(heap', last'.ret[1])
                 /\ inner(heap', last'.ret[1]) = last'.arg)
        /\ (Constructing(last'.op)
              => \A p \in DOMAIN heap :
                   inner(heap', HandleOf(heap', p)) = inner(heap, HandleOf(heap, p)))
      ]_vars

(* C1 witness: new(s) has just returned the handle of a second object     *)
(* whose state differs from the first object's, and each resolves to its   *)
(* own state.                                                              *)
C1_Witness ==
    /\ last.op = "new" /\ Returned(last)
    /\ obj_sys(last.ret[1]) = 2
    /\ inner(heap, last.ret[1]) = last.arg
    /\ inner(heap, HandleOf(heap, 1)) # last.arg
    /\ inner(heap, HandleOf(heap, 1)) # None

(* C2: the handle new_default() returns for class T resolves through      *)
(* inner() to T's default value.                                           *)
C2_NewDefaultThenInner ==
    [][ last'.op = "new_default" /\ Returned(last')
          => /\ last'.ret[1].T = last'.arg[1]
             /\ WellTyped(heap', last'.ret[1])
             /\ inner(heap', last'.ret[1]) = Some(DefaultOf(last'.arg[1]))
      ]_vars

(* C2 witness: new_default() has returned a handle of class B next to an  *)
(* object of class A, and it resolves to B's default.                      *)
C2_Witness ==
    /\ last.op = "new_default" /\ Returned(last)
    /\ last.arg = Some("B")
    /\ Len(heap) = 2 /\ heap[1].class = "A"
    /\ inner(heap, last.ret[1]) = Some(DefaultOf("B"))

(* C3: for every handle in scope of a live host object,                   *)
(* from_instance_id(instance_id()) succeeds and returns a handle with the  *)
(* same instance id, of the same host object.                              *)
C3_InstanceIdRoundTrip ==
    \A h \in InScope :
        obj_sys(h) \in DOMAIN heap /\ heap[obj_sys(h)].live
          => LET r == from_instance_id(heap, h.T, instance_id(heap, h))
             IN  /\ r.outcome = "ok"
                 /\ r.ret # None
                 /\ obj_sys(r.ret[1]) = obj_sys(h)
                 /\ instance_id(heap, r.ret[1]) = instance_id(heap, h)

(* C3 witness: from_instance_id has returned a handle of the second       *)
(* object, found by the id instance_id() reports for it.                   *)
C3_Witness ==
    /\ last.op = "from_instance_id" /\ Returned(last)
    /\ obj_sys(last.ret[1]) = 2
    /\ last.arg = Some(instance_id(heap, last.ret[1]))
    /\ last.ret[1] \in InScope

(* C4: try_from_instance_id never fails fatally, returns nothing exactly  *)
(* when the host lookup yields null (so for every id no object has) and a  *)
(* handle of the object found otherwise; from_instance_id panics exactly   *)
(* when that lookup yields null.                                           *)
C4_LookupFailure ==
    /\ last.op = "try_from_instance_id"
         => /\ last.outcome = "ok"
            /\ (last.ret = None) <=> HostReturnedNull(last)
            /\ (\A p \in DOMAIN heap : heap[p].id # last.arg[1]) => last.ret = None
            /\ last.ret # None => obj_sys(last.ret[1]) = last.trace[1].obj
    /\ last.op = "from_instance_id"
         => /\ (last.outcome = "panic") <=> HostReturnedNull(last)
            /\ (last.outcome = "panic") <=>
                  (try_from_instance_id(heap, "A", last.arg[1]).ret = None)
            /\ last.outcome \in {"ok", "panic"}
            /\ last.outcome = "ok" => /\ last.ret # None
                                      /\ obj_sys(last.ret[1]) = last.trace[1].obj

(* C4 witness: try_from_instance_id has returned nothing for an id that   *)
(* no object has, with objects on the heap.                                *)
C4_Witness ==
    /\ last.op = "try_from_instance_id"
    /\ last.ret = None
    /\ status = "running"
    /\ heap # <<>>

(* C5: new() and new_default() fail fatally when, and only when, the host *)
(* construction call returns null; then no handle is returned and the     *)
(* binding slot of the null object is not asked for.                       *)
C5_NullConstruction ==
    Constructing(last.op)
      => /\ (last.outcome \in {"panic", "abort"}) <=> HostReturnedNull(last)
         /\ HostReturnedNull(last)
              => /\ last.ret = None
                 /\ CallsOf(last, "object_get_instance_binding") = {}
                 /\ CallsOf(last, "initialize") = {}

(* C9: no host object is ever destroyed: every object constructed is live *)
(* after any sequence of operations, and no operation calls                *)
(* object_destroy.                                                         *)
C9_NeverDestroyed ==
    /\ \A p \in DOMAIN heap : heap[p].live
    /\ CallsOf(last, "object_destroy") = {}

(* C9 witness: the last handle of a host object went out of scope, or was *)
(* consumed by a variant conversion, and the object is still there.        *)
C9_Witness ==
    /\ last.op \in {"drop", "variant_from_obj"}
    /\ obj_sys(last.arg[1]) \in DOMAIN heap
    /\ \A h \in InScope : obj_sys(h) # obj_sys(last.arg[1])
    /\ heap[obj_sys(last.arg[1])].live

(* C10: every object's binding slot has been initialized exactly once, by *)
(* the new()/new_default() that constructed it, after the construction     *)
(* call and before the handle was returned; no other operation            *)
(* initializes a slot.                                                     *)
C10_InitializedOnce ==
    /\ \A p \in DOMAIN heap : heap[p].inits = 1
    /\ Constructing(last.op) /\ Returned(last)
         => /\ last.ret[1] = HandleOf(heap, Len(heap))
            /\ CallsOf(last, "classdb_construct_object") = {1}
            /\ CallsOf(last, "initialize") = {Len(last.trace)}
            /\ Len(last.trace) > 1
            /\ \A i \in DOMAIN last.trace : last.trace[i].obj = Len(heap)
    /\ ~Constructing(last.op) => CallsOf(last, "initialize") = {}

(* C10 witness: a second handle of an object was obtained by id and used  *)
(* to write its state, and the slot is still initialized once.             *)
C10_Witness ==
    /\ last.op = "inner_mut" /\ last.outcome = "ok"
    /\ CopiesIn(last.arg[1], handles) = 2
    /\ heap[obj_sys(last.arg[1])].inits = 1

----------------------------------------------------------------------------
(* The export code generator (property.rs)                                 *)

(* ParseResult<T> *)
Ok(x) == [ok |-> TRUE, v |-> x]
Err(msg) == [ok |-> FALSE, v |-> msg]

(* GetterSetter *)
Omitted == <<"Omitted">>
Generated == <<"Generated">>
Custom(id) == <<"Custom", id>>

(* The values a key of #[export(...)] can carry: an identifier or some    *)
(* other expression.                                                       *)
Ident(text) == [kind |-> "ident", text |-> text]
Expr(text) == [kind |-> "expr", text |-> text]

(* The names of the fields of the class, in declaration order. *)
FieldNames == <<"health", "secret", "speed", "mana">>

(* What a key may be: absent, present without a value, present with one. *)
KeyInputs == {None, Some(None), Some(Some(Ident("my_fn"))), Some(Some(Expr("1 + 1")))}

(* #[export(...)] attributes: the hint comes with or without hint_desc. *)
Attrs ==
    { [get |-> g, set |-> s, hint |-> h[1], hint_desc |-> h[2]] :
        g \in KeyInputs, s \in KeyInputs,
        h \in { <<None, None>>,
                <<Some(Some(Ident("ENUM"))), Some(Some(Expr("a,b")))>>,
                <<Some(Some(Ident("ENUM"))), None>> } }

(* A field's export attribute, if it has one. *)
FieldAttrs == {None} \cup {Some(x) : x \in Attrs}

(* The fields of a declaration: field i is named FieldNames[i]. *)
fields_of(d) == [i \in DOMAIN d |-> [name |-> FieldNames[i], attr |-> d[i]]]

(* KvParser::handle_any: the key's entry, None when the key is absent. *)
handle_any(attr, key) == attr[key]

(* KvValue::ident: the value as an identifier, an error for anything else. *)
value_ident(value) ==
    IF value.kind = "ident" THEN Ok(value.text) ELSE Err("expected identifier")

(* KvParser::handle_ident: None when absent, the identifier otherwise. *)
handle_ident(attr, key) ==
    LET a == handle_any(attr, key)
    IN  IF a = None THEN Ok(None)
        ELSE IF a[1] = None THEN Err("expected value")
        ELSE LET id == value_ident(a[1][1])
             IN  IF id.ok THEN Ok(Some(id.v)) ELSE id

(* KvParser::handle_expr_required: the key's expression, which must exist. *)
handle_expr_required(attr, key) ==
    LET a == handle_any(attr, key)
    IN  IF a = None \/ a[1] = None THEN Err("missing required key")
        ELSE Ok(a[1][1].text)

(* GetterSetter::parse that reads a key without a value as omitted. *)
GetterSetter_parse_flag_omitted(attr, key) ==
    LET a == handle_any(attr, key)
    IN  IF a = None THEN Ok(Omitted)
        ELSE IF a[1] = None THEN Ok(Omitted)
        ELSE LET id == value_ident(a[1][1])
             IN  IF id.ok THEN Ok(Custom(id.v)) ELSE id

(* GetterSetter::parse *)
GetterSetter_parse(attr, key) ==
    LET a == handle_any(attr, key)
    IN  IF a = None THEN Ok(Omitted)
        ELSE IF a[1] = None THEN Ok(Generated)
        ELSE LET id == value_ident(a[1][1])
             IN  IF id.ok THEN Ok(Custom(id.v)) ELSE id

(* The hint of FieldExport::new_from_kv. *)
parse_hint(attr) ==
    LET h == handle_ident(attr, "hint")
    IN  IF ~h.ok THEN h
        ELSE IF h.v = None THEN Ok(None)
        ELSE LET d == handle_expr_required(attr, "hint_desc")
             IN  IF ~d.ok THEN d
                 ELSE Ok(Some([hint_type |-> h.v[1], description |-> d.v]))

(* FieldExport::new_from_kv *)
new_from_kv(attr) ==
    LET g == GetterSetter_parse(attr, "get")
        s == GetterSetter_parse(attr, "set")
        both == g.v = Omitted /\ s.v = Omitted
        hint == parse_hint(attr)
    IN  IF ~g.ok THEN g
        ELSE IF ~s.ok THEN s
        ELSE IF ~hint.ok THEN hint
        ELSE Ok([getter |-> IF both THEN Generated ELSE g.v,
                 setter |-> IF both THEN Generated ELSE s.v,
                 hint |-> hint.v])

(* The derive macro over the fields: each #[export] attribute is parsed,  *)
(* the first error is a compile error.                                     *)
parse_field(field) ==
    IF field.attr = None THEN Ok([name |-> field.name, export |-> None])
    ELSE LET e == new_from_kv(field.attr[1])
         IN  IF e.ok THEN Ok([name |-> field.name, export |-> Some(e.v)]) ELSE e

parse_fields(d) ==
    IF \E i \in DOMAIN d : ~parse_field(d[i]).ok
    THEN Err("compile error")
    ELSE Ok([i \in DOMAIN d |-> parse_field(d[i]).v])

(* What the generator emits *)
AccessorFn(name, field, dir) == [name |-> name, field |-> field, dir |-> dir]
RegisterMethod(name) == [kind |-> "register_method", name |-> name]
ExistenceCheck(id) == [kind |-> "existence_check", name |-> id]
RegisterProperty(field, setter_name, getter_name, hint) ==
    [kind |-> "register_property", name |-> field, setter |-> setter_name,
     getter |-> getter_name, hint |-> hint]

Part(name, fns, toks) == [name |-> name, impls |-> fns, tokens |-> toks]

(* An accessor that is synthesized and named even when omitted. *)
accessor_always_generated(prefix, dir, field_name, gs) ==
    IF gs[1] = "Custom"
    THEN Part(gs[2], <<>>, <<ExistenceCheck(gs[2])>>)
    ELSE Part(prefix \o field_name,
              <<AccessorFn(prefix \o field_name, field_name, dir)>>,
              <<RegisterMethod(prefix \o field_name)>>)

(* make_exports_impl, the match on export.getter / export.setter: the     *)
(* accessor's name, the function synthesized and the tokens pushed.        *)
accessor(prefix, dir, field_name, gs) ==
    IF gs = Omitted
    THEN Part("", <<>>, <<>>)
    ELSE IF gs = Generated
    THEN Part(prefix \o field_name,
              <<AccessorFn(prefix \o field_name, field_name, dir)>>,
              <<RegisterMethod(prefix \o field_name)>>)
    ELSE Part(gs[2], <<>>, <<ExistenceCheck(gs[2])>>)

(* make_exports_impl, the body of the loop for one field. *)
export_field(field) ==
    IF field.export = None
    THEN [impls |-> <<>>, tokens |-> <<>>]
    ELSE LET export == field.export[1]
             g == accessor("get_", "getter", field.name, export.getter)
             s == accessor("set_", "setter", field.name, export.setter)
         IN  [impls |-> g.impls \o s.impls,
              tokens |-> g.tokens \o s.tokens \o
                         <<RegisterProperty(field.name, s.name, g.name,
                                            export.hint)>>]

RECURSIVE exports_reversed(_)
(* make_exports_impl that walks the fields from the last to the first. *)
exports_reversed(fields) ==
    IF fields = <<>>
    THEN [impls |-> <<>>, tokens |-> <<>>]
    ELSE LET rest == exports_reversed(Tail(fields))
             one == export_field(Head(fields))
         IN  [impls |-> rest.impls \o one.impls,
              tokens |-> rest.tokens \o one.tokens]

RECURSIVE make_exports_impl(_)
(* make_exports_impl: the loop over fields.all_fields. *)
make_exports_impl(fields) ==
    IF fields = <<>>
    THEN [impls |-> <<>>, tokens |-> <<>>]
    ELSE LET one == export_field(Head(fields))
             rest == make_exports_impl(Tail(fields))
         IN  [impls |-> one.impls \o rest.impls,
              tokens |-> one.tokens \o rest.tokens]

(* One block of __register_exports(): the host call the token makes, if   *)
(* any (an existence check has no runtime effect).                         *)
run_token(reg, token) ==
    IF token.kind = "existence_check" THEN reg ELSE Append(reg, token)

----------------------------------------------------------------------------
(* Actions of SpecExport *)

ParseFields ==
    /\ build = "declared"
    /\ LET r == parse_fields(fields_of(decl))
       IN  /\ build' = IF r.ok THEN "parsed" ELSE "compile_error"
           /\ parsed' = IF r.ok THEN r.v ELSE parsed
    /\ UNCHANGED <<decl, impls, tokens, pc, registry, objVars>>

MakeExportsImpl ==
    /\ build = "parsed"
    /\ LET out == make_exports_impl(parsed)
       IN  /\ impls' = out.impls
           /\ tokens' = out.tokens
    /\ build' = "generated"
    /\ UNCHANGED <<decl, parsed, pc, registry, objVars>>

(* __register_exports(), one block at a time. *)
RegisterExports ==
    /\ build = "generated"
    /\ pc < Len(tokens)
    /\ registry' = run_token(registry, tokens[pc + 1])
    /\ pc' = pc + 1
    /\ UNCHANGED <<decl, parsed, build, impls, tokens, objVars>>

InitExport ==
    /\ ObjInit
    /\ \E n \in 0 .. MaxFields : decl \in [1 .. n -> FieldAttrs]
    /\ parsed = <<>>
    /\ build = "declared"
    /\ impls = <<>>
    /\ tokens = <<>>
    /\ pc = 0
    /\ registry = <<>>

NextExport ==
    \/ ParseFields
    \/ MakeExportsImpl
    \/ RegisterExports

SpecExport == InitExport /\ [][NextExport]_vars

----------------------------------------------------------------------------
(* Properties of SpecExport *)

Exported == {i \in DOMAIN decl : decl[i] # None}

(* What a key's directive reads as on its own: absent is Omitted, a key   *)
(* without a value Generated, a key with an identifier Custom.             *)
AsWritten(k) ==
    IF k = None THEN Omitted
    ELSE IF k[1] = None THEN Generated
    ELSE Custom(k[1][1].text)

NoDirective(a) == a.get = None /\ a.set = None

Descriptors == build \in {"parsed", "generated"}

(* The property registration emitted for field i. *)
PropertyTokens(i) ==
    {t \in DOMAIN tokens : /\ tokens[t].kind = "register_property"
                           /\ tokens[t].name = FieldNames[i]}

(* With no directive, the registration of the field passes the non-empty  *)
(* names get_<field> and set_<field>.                                      *)
DefaultNames(i) ==
    build = "generated" /\ NoDirective(decl[i][1])
      => /\ PropertyTokens(i) # {}
         /\ \A t \in PropertyTokens(i) :
              /\ tokens[t].getter = "get_" \o FieldNames[i]
              /\ tokens[t].setter = "set_" \o FieldNames[i]
              /\ tokens[t].getter # "" /\ tokens[t].setter # ""

(* C6, as claimed: getter and setter are both Generated if and only if    *)
(* both directives are absent; otherwise each is what its own key reads    *)
(* as; with no directive the names registered are get_<field> and          *)
(* set_<field>.                                                            *)
C6_BothGeneratedIffAbsent ==
    Descriptors =>
      \A i \in Exported :
        LET a == decl[i][1]
            e == parsed[i].export[1]
        IN  /\ (e.getter = Generated /\ e.setter = Generated) <=> NoDirective(a)
            /\ ~NoDirective(a) => /\ e.getter = AsWritten(a.get)
                                  /\ e.setter = AsWritten(a.set)
            /\ DefaultNames(i)

(* C6, amended: getter and setter are both Generated if both directives   *)
(* are absent; otherwise each is what its own key reads as (so both are    *)
(* Generated also for `get, set`); with no directive the names registered  *)
(* are get_<field> and set_<field>.                                        *)
C6_DefaultWhenAbsent ==
    Descriptors =>
      \A i \in Exported :
        LET a == decl[i][1]
            e == parsed[i].export[1]
        IN  /\ NoDirective(a) => e.getter = Generated /\ e.setter = Generated
            /\ ~NoDirective(a) => /\ e.getter = AsWritten(a.get)
                                  /\ e.setter = AsWritten(a.set)
            /\ DefaultNames(i)

(* C6 witness: the code is generated for a class with one field exported  *)
(* without directives and one exported with `get` and a custom setter.     *)
C6_Witness ==
    /\ build = "generated"
    /\ \E i, j \in Exported :
         /\ NoDirective(decl[i][1])
         /\ parsed[i].export[1].getter = Generated
         /\ decl[j][1].get = Some(None)
         /\ parsed[j].export[1].setter = Custom("my_fn")

SynthesizedFns(name) == {f \in DOMAIN impls : impls[f].name = name}

MethodRegistrations(name) ==
    {t \in DOMAIN tokens : /\ tokens[t].kind = "register_method"
                           /\ tokens[t].name = name}

(* C7: for a field exported with get only, the setter name registered is  *)
(* empty and no setter is synthesized or registered (and likewise with set *)
(* only); get_<field>/set_<field> is synthesized exactly when that         *)
(* direction is Generated.                                                 *)
C7_OmittedAccessor ==
    build = "generated" =>
      \A i \in Exported :
        LET a == decl[i][1]
            e == parsed[i].export[1]
            get_name == "get_" \o FieldNames[i]
            set_name == "set_" \o FieldNames[i]
        IN  /\ Cardinality(PropertyTokens(i)) = 1
            /\ a.get # None /\ a.set = None
                 => /\ \A t \in PropertyTokens(i) : tokens[t].setter = ""
                    /\ SynthesizedFns(set_name) = {}
                    /\ MethodRegistrations(set_name) = {}
            /\ a.set # None /\ a.get = None
                 => /\ \A t \in PropertyTokens(i) : tokens[t].getter = ""
                    /\ SynthesizedFns(get_name) = {}
                    /\ MethodRegistrations(get_name) = {}
            /\ SynthesizedFns(get_name) # {} <=> e.getter = Generated
            /\ SynthesizedFns(set_name) # {} <=> e.setter = Generated

(* C7 witness: code is generated for a field exported with `get` only     *)
(* next to a field exported with `set` only.                               *)
C7_Witness ==
    /\ build = "generated"
    /\ \E i, j \in Exported :
         /\ decl[i][1].get = Some(None) /\ decl[i][1].set = None
         /\ SynthesizedFns("get_" \o FieldNames[i]) # {}
         /\ decl[j][1].set = Some(None) /\ decl[j][1].get = None
         /\ SynthesizedFns("set_" \o FieldNames[j]) # {}

(* The names of the exported fields, in declaration order. *)
ExportedNames ==
    LET idx == SelectSeq([i \in DOMAIN decl |-> i], LAMBDA i : decl[i] # None)
    IN  [k \in DOMAIN idx |-> FieldNames[idx[k]]]

(* The properties registered so far by the run, in the order of the calls. *)
PropertyCalls ==
    LET calls == SelectSeq(registry, LAMBDA c : c.kind = "register_property")
    IN  [k \in DOMAIN calls |-> calls[k].name]

RunDone == build = "generated" /\ pc = Len(tokens)

(* C8: a run of __register_exports() registers the properties in field    *)
(* declaration order, one call per exported field, none for the others     *)
(* and none twice.                                                         *)
C8_RegistrationOrder ==
    /\ Len(PropertyCalls) <= Len(ExportedNames)
    /\ PropertyCalls = SubSeq(ExportedNames, 1, Len(PropertyCalls))
    /\ \A j, k \in DOMAIN PropertyCalls : j # k => PropertyCalls[j] # PropertyCalls[k]
    /\ RunDone => PropertyCalls = ExportedNames

(* C8 witness: a run is complete over a class whose two fields are both   *)
(* exported, with accessors registered between the two property calls.     *)
C8_Witness ==
    /\ RunDone
    /\ Len(PropertyCalls) = 2
    /\ Len(registry) > 2

====
